---- MODULE Spec2Model ----
(***************************************************************************)
(* betterknown: WKT / EWKT text <-> GeoJSON geometry.                      *)
(*                                                                         *)
(* Texts are sequences of one-character strings.  A number is the record   *)
(* [nan, v]: v counts tenths (v = 15 is the number 1.5), nan marks NaN.    *)
(* A geometry is [type, coordinates] or, for a GeometryCollection,         *)
(* [type, geometries]; null is the record Null.  Scanner positions are     *)
(* 0-based offsets as in the source.                                       *)
(***************************************************************************)
EXTENDS Integers, Sequences, FiniteSets, TLC

VARIABLES doc, userOptions, given, source, wkt, geometry, error, projLog, stack, iterations, scanner, pc

vars == <<doc, userOptions, given, source, wkt, geometry, error, projLog, stack,
          iterations, scanner, pc>>

(***************************************************************************)
(* Values                                                                  *)
(***************************************************************************)
Num(n) == [nan |-> FALSE, v |-> n]
NaN == [nan |-> TRUE, v |-> 0]
Null == [type |-> "null"]

WKT_GEOMETRY_TYPES ==
  << <<"P","O","I","N","T">>,
     <<"L","I","N","E","S","T","R","I","N","G">>,
     <<"P","O","L","Y","G","O","N">>,
     <<"M","U","L","T","I","P","O","I","N","T">>,
     <<"M","U","L","T","I","L","I","N","E","S","T","R","I","N","G">>,
     <<"M","U","L","T","I","P","O","L","Y","G","O","N">>,
     <<"G","E","O","M","E","T","R","Y","C","O","L","L","E","C","T","I","O","N">> >>

ZZM == << <<"Z","M">>, <<"Z">>, <<"M">> >>

EMPTY == <<"E","M","P","T","Y">>

Digits == <<"0","1","2","3","4","5","6","7","8","9">>

IsDigit(c) == \E i \in 1..10 : Digits[i] = c

DigitVal(c) == (CHOOSE i \in 1..10 : Digits[i] = c) - 1

\* RegExp \s, over the characters of the model's alphabet
IsWhite(c) == c \in {" ", "\t", "\n"}

(***************************************************************************)
(* Scanner (class WktParser): every operation returns the new position     *)
(***************************************************************************)
\* a variant that skips every white space character
RECURSIVE skipWhitespacesAll(_, _)
skipWhitespacesAll(value, position) ==
  IF position < Len(value) /\ IsWhite(value[position + 1])
  THEN skipWhitespacesAll(value, position + 1)
  ELSE position

RECURSIVE skipWhitespaces(_, _)
skipWhitespaces(value, position) ==
  IF position < Len(value) /\ value[position + 1] = " "
  THEN skipWhitespaces(value, position + 1)
  ELSE position

\* String.prototype.startsWith(token, position)
startsWith(value, token, position) ==
  /\ position + Len(token) <= Len(value)
  /\ SubSeq(value, position + 1, position + Len(token)) = token

RECURSIVE matchTokens(_, _, _, _)
\* a variant that sets the position to the token's length
matchTokensAbsolute(value, p, tokens, i) ==
  IF i > Len(tokens) THEN [ok |-> FALSE, position |-> p, token |-> <<>>]
  ELSE IF startsWith(value, tokens[i], p)
       THEN [ok |-> TRUE, position |-> Len(tokens[i]), token |-> tokens[i]]
       ELSE matchTokens(value, p, tokens, i + 1)

matchTokens(value, p, tokens, i) ==
  IF i > Len(tokens) THEN [ok |-> FALSE, position |-> p, token |-> <<>>]
  ELSE IF startsWith(value, tokens[i], p)
       THEN [ok |-> TRUE, position |-> p + Len(tokens[i]), token |-> tokens[i]]
       ELSE matchTokens(value, p, tokens, i + 1)

match(value, position, tokens) ==
  matchTokens(value, skipWhitespaces(value, position), tokens, 1)

\* a variant that moves past the token's length also when it is not there
isMatchAtConsuming(value, p, token) ==
  [ok |-> startsWith(value, token, p), position |-> p + Len(token)]

isMatchAt(value, p, token) ==
  IF startsWith(value, token, p)
  THEN [ok |-> TRUE, position |-> p + Len(token)]
  ELSE [ok |-> FALSE, position |-> p]

isMatch(value, position, token) ==
  isMatchAt(value, skipWhitespaces(value, position), token)

(***************************************************************************)
(* Regular expressions of matchCoordinate and of the SRID prefix.          *)
(* A coordinate pattern is a sequence of atoms: "S" is a captured run of   *)
(* non-space characters (zero or more), "W" is a run of one or more white  *)
(* space characters, "L" is a captured run (zero or more) of characters    *)
(* that are neither white space nor a comma nor a closing parenthesis.     *)
(* Quantifiers are greedy and backtrack, as in the RegExp engine.          *)
(***************************************************************************)
InClass(c, atom) ==
  CASE atom = "S" -> ~IsWhite(c)
    [] atom = "W" -> IsWhite(c)
    [] atom = "L" -> ~IsWhite(c) /\ c # "," /\ c # ")"

RECURSIVE RunLen(_, _, _)
RunLen(value, p, atom) ==
  IF p < Len(value) /\ InClass(value[p + 1], atom)
  THEN 1 + RunLen(value, p + 1, atom)
  ELSE 0

RECURSIVE RegexFrom(_, _, _, _)
RECURSIVE RegexTry(_, _, _, _, _)
RECURSIVE RegexPick(_, _, _, _, _, _)
RegexFrom(value, pat, i, p) ==
  IF i > Len(pat) THEN [ok |-> TRUE, end |-> p, groups |-> <<>>]
  ELSE RegexTry(value, pat, i, p, RunLen(value, p, pat[i]))

\* atom i takes n characters, the longest run first, while the rest fails
RegexTry(value, pat, i, p, n) ==
  IF n < (IF pat[i] = "W" THEN 1 ELSE 0)
  THEN [ok |-> FALSE, end |-> p, groups |-> <<>>]
  ELSE RegexPick(value, pat, i, p, n, RegexFrom(value, pat, i + 1, p + n))

RegexPick(value, pat, i, p, n, rest) ==
  IF rest.ok
  THEN [ok |-> TRUE, end |-> rest.end,
        groups |-> IF pat[i] = "W" THEN rest.groups
                   ELSE <<SubSeq(value, p + 1, p + n)>> \o rest.groups]
  ELSE RegexTry(value, pat, i, p, n - 1)

regexResult(p, r) ==
  IF r.ok THEN [ok |-> TRUE, position |-> r.end, groups |-> r.groups]
  ELSE [ok |-> FALSE, position |-> p, groups |-> <<>>]

regexAt(value, p, pat) == regexResult(p, RegexFrom(value, pat, 1, p))

\* matchRegex([pattern]) for a coordinate pattern: the match is anchored (^)
matchRegex(value, position, pat) ==
  regexAt(value, skipWhitespaces(value, position), pat)

SRIDEQ == <<"S","R","I","D","=">>

RECURSIVE DigitRun(_, _)
DigitRun(value, p) ==
  IF p < Len(value) /\ IsDigit(value[p + 1]) THEN 1 + DigitRun(value, p + 1) ELSE 0

\* SRID= at p, then n digits, then ";"
sridAt(value, p, n) ==
  IF startsWith(value, SRIDEQ, p) /\ n >= 1
     /\ startsWith(value, <<";">>, p + Len(SRIDEQ) + n)
  THEN [ok |-> TRUE, position |-> p + Len(SRIDEQ) + n + 1,
        groups |-> <<SubSeq(value, p + Len(SRIDEQ) + 1, p + Len(SRIDEQ) + n)>>]
  ELSE [ok |-> FALSE, position |-> p, groups |-> <<>>]

sridFrom(value, p) == sridAt(value, p, DigitRun(value, p + Len(SRIDEQ)))

\* matchRegex([/^SRID=(\d+);/])
matchSrid(value, position) == sridFrom(value, skipWhitespaces(value, position))

(***************************************************************************)
(* Number <-> text                                                         *)
(***************************************************************************)
RECURSIVE parseDigits(_, _)
parseDigits(s, acc) ==
  IF Len(s) = 0 THEN acc ELSE parseDigits(Tail(s), acc * 10 + DigitVal(Head(s)))

\* parseInt(s, 10) of a non-empty run of digits
parseInt(s) == parseDigits(s, 0)

signLen(s) == IF Len(s) > 0 /\ s[1] \in {"-", "+"} THEN 1 ELSE 0

\* sign of a characters, ni integer digits, nf fraction digits after a "."
decimalValue(s, a, ni, nf) ==
  IF ni = 0 /\ nf = 0 THEN NaN
  ELSE Num((IF a = 1 /\ s[1] = "-" THEN -1 ELSE 1)
           * (parseDigits(SubSeq(s, a + 1, a + ni), 0) * 10
              + (IF nf > 0 THEN DigitVal(s[a + ni + 2]) ELSE 0)))

decimalOf(s, a, ni) ==
  decimalValue(s, a, ni,
               IF a + ni < Len(s) /\ s[a + ni + 1] = "."
               THEN DigitRun(s, a + ni + 1) ELSE 0)

\* parseFloat(s): the longest prefix of s that is a decimal literal, else NaN.
\* The argument holds no white space (a regex group), no exponent and at most
\* one fraction digit.
parseFloat(s) == decimalOf(s, signLen(s), DigitRun(s, signLen(s)))

RECURSIVE natToString(_)
natToString(n) ==
  IF n < 10 THEN <<Digits[n + 1]>>
  ELSE natToString(n \div 10) \o <<Digits[(n % 10) + 1]>>

abs(n) == IF n < 0 THEN 0 - n ELSE n

\* Number.prototype.toString, as Array.prototype.join applies it
numberToString(x) ==
  IF x.nan THEN <<"N","a","N">>
  ELSE (IF x.v < 0 THEN <<"-">> ELSE <<>>)
       \o natToString(abs(x.v) \div 10)
       \o (IF abs(x.v) % 10 = 0 THEN <<>> ELSE <<".", Digits[(abs(x.v) % 10) + 1]>>)

(***************************************************************************)
(* Grammar engine.  A production takes the parser state s (the position    *)
(* and the calls of options.proj made so far) and returns                  *)
(* [error, position, value, calls]: error is the message of the Error      *)
(* thrown ("" when it returns) and value is what it returns.  A result is  *)
(* the state the next production starts from.                              *)
(***************************************************************************)
\* forward records that no position so far was smaller than the one before it
Ok(s, position, value) ==
  [error |-> "", position |-> position, value |-> value, calls |-> s.calls,
   active |-> s.active, peak |-> s.peak, iterations |-> s.iterations,
   forward |-> s.forward /\ s.position <= position]

Throw(s, message, position) ==
  [error |-> message, position |-> position, value |-> Null, calls |-> s.calls,
   active |-> s.active, peak |-> s.peak, iterations |-> s.iterations,
   forward |-> s.forward /\ s.position <= position]

At(s, position) ==
  [position |-> position, calls |-> s.calls, active |-> s.active, peak |-> s.peak,
   iterations |-> s.iterations, forward |-> s.forward /\ s.position <= position]

\* the body of a do-while loop is entered again, from position
Again(s, position) ==
  [position |-> position, calls |-> s.calls, active |-> s.active, peak |-> s.peak,
   iterations |-> s.iterations + 1, forward |-> s.forward /\ s.position <= position]

\* a call of wktToGeoJSONinner begins: one more frame of it is active, and
\* peak is the largest number of frames active at once so far
Enter(s) ==
  [position |-> s.position, calls |-> s.calls, active |-> s.active + 1,
   peak |-> IF s.active + 1 > s.peak THEN s.active + 1 ELSE s.peak,
   iterations |-> s.iterations, forward |-> s.forward]

\* the call ends, by return or by throw
Leave(r) == [r EXCEPT !.active = @ - 1]

\* statement sequencing: an Error thrown by r ends the production
Bind(r, K(_)) == IF r.error # "" THEN r ELSE K(r)

\* if (isMatch(...)) A else B, both from the position isMatch leaves
IfMatch(m, A(_), B(_)) == IF m.ok THEN A(m.position) ELSE B(m.position)

\* a caller's reprojection callback: any function of its arguments that is
\* not the identity; this one maps each component x to 2x + 0.1
projFn(fromProjection, toProjection, coordinate) ==
  [i \in 1..Len(coordinate) |->
     IF coordinate[i].nan THEN NaN ELSE Num(2 * coordinate[i].v + 1)]

\* another caller's callback: it reprojects the two horizontal components and
\* returns only them
projFlat(fromProjection, toProjection, coordinate) ==
  <<projFn(fromProjection, toProjection, coordinate)[1],
    projFn(fromProjection, toProjection, coordinate)[2]>>

\* the value options.proj(from, to, position) returns, by the callback given
callProj(proj, fromProjection, toProjection, coordinate) ==
  IF proj = "flat" THEN projFlat(fromProjection, toProjection, coordinate)
  ELSE projFn(fromProjection, toProjection, coordinate)

typeResult(s, m) ==
  IF ~m.ok THEN Throw(s, "Expected geometry type", m.position)
  ELSE Ok(s, m.position, m.token)

matchType(value, s) == typeResult(s, match(value, s.position, WKT_GEOMETRY_TYPES))

dimensionOf(m) ==
  CASE m.ok /\ m.token = <<"Z","M">> -> [hasZ |-> TRUE, hasM |-> TRUE, position |-> m.position]
    [] m.ok /\ m.token = <<"Z">> -> [hasZ |-> TRUE, hasM |-> FALSE, position |-> m.position]
    [] m.ok /\ m.token = <<"M">> -> [hasZ |-> FALSE, hasM |-> TRUE, position |-> m.position]
    [] OTHER -> [hasZ |-> FALSE, hasM |-> FALSE, position |-> m.position]

matchDimension(value, position) == dimensionOf(match(value, position, ZZM))

expectGroupStart(value, s) ==
  IfMatch(isMatch(value, s.position, <<"(">>),
          LAMBDA p : Ok(s, p, Null),
          LAMBDA p : Throw(s, "Expected group start", p))

\* a variant that does not throw when ")" is missing
expectGroupEndLenient(value, s) ==
  IfMatch(isMatch(value, s.position, <<")">>),
          LAMBDA p : Ok(s, p, Null),
          LAMBDA p : Ok(s, p, Null))

expectGroupEnd(value, s) ==
  IfMatch(isMatch(value, s.position, <<")">>),
          LAMBDA p : Ok(s, p, Null),
          LAMBDA p : Throw(s, "Expected group end", p))

coordinatePattern(options) ==
  IF options.hasZ /\ options.hasM THEN <<"S","W","S","W","S","W","L">>
  ELSE IF options.hasZ \/ options.hasM THEN <<"S","W","S","W","L">>
  ELSE <<"S","W","L">>

\* a variant that stores the third field of an M coordinate
coordinateOfStored(groups, options) ==
  IF options.hasZ /\ options.hasM
  THEN <<parseFloat(groups[1]), parseFloat(groups[2]),
         parseFloat(groups[3]), parseFloat(groups[4])>>
  ELSE IF options.hasZ \/ options.hasM
  THEN <<parseFloat(groups[1]), parseFloat(groups[2]), parseFloat(groups[3])>>
  ELSE <<parseFloat(groups[1]), parseFloat(groups[2])>>

\* the Position built from the groups of the match
coordinateOf(groups, options) ==
  IF options.hasZ /\ options.hasM
  THEN <<parseFloat(groups[1]), parseFloat(groups[2]),
         parseFloat(groups[3]), parseFloat(groups[4])>>
  ELSE IF options.hasZ
  THEN <<parseFloat(groups[1]), parseFloat(groups[2]), parseFloat(groups[3])>>
  ELSE <<parseFloat(groups[1]), parseFloat(groups[2])>>

\* a variant that forgets the exemption of SRID 4326
sridNeedsProjAny(srid) == Len(srid) = 1 /\ srid[1] # 0

\* options.srid && options.srid !== 4326 (srid is <<>> for null, else <<n>>)
sridNeedsProj(srid) == Len(srid) = 1 /\ srid[1] # 0 /\ srid[1] # 4326

EPSG(n) == <<"E","P","S","G",":">> \o natToString(n)

\* the call options.proj(`EPSG:${options.srid}`, "EPSG:4326", position)
projCall(options, coordinate) ==
  [fromProjection |-> EPSG(options.srid[1]), toProjection |-> EPSG(4326),
   coordinate |-> coordinate]

\* what matchCoordinate does with the position it has read
resolve(s, p, options, coordinate) ==
  IF sridNeedsProj(options.srid)
  THEN IF options.proj # "undefined"
       THEN [error |-> "", position |-> p,
             value |-> callProj(options.proj, EPSG(options.srid[1]), EPSG(4326), coordinate),
             calls |-> Append(s.calls, projCall(options, coordinate)),
             active |-> s.active, peak |-> s.peak, iterations |-> s.iterations,
             forward |-> s.forward /\ s.position <= p]
       ELSE Throw(s, "EWKT data in an unknown SRID was provided, but a proj function was not", p)
  ELSE Ok(s, p, coordinate)

coordinateResult(s, m, options) ==
  IF ~m.ok THEN Throw(s, "Expected coordinates", m.position)
  ELSE resolve(s, m.position, options, coordinateOf(m.groups, options))

matchCoordinate(value, s, options) ==
  coordinateResult(s, matchRegex(value, s.position, coordinatePattern(options)), options)

RECURSIVE matchCoordinatesLoop(_, _, _, _)
RECURSIVE matchCoordinatesWhile(_, _, _, _)

\* a variant that does not look for a "(" before the coordinate
matchCoordinatesLoopBare(value, s, options, coordinates) ==
  Bind(matchCoordinate(value, s, options), LAMBDA c :
  matchCoordinatesWhile(value, c, options, Append(coordinates, c.value)))

\* the body of the do-while loop
matchCoordinatesLoop(value, s, options, coordinates) ==
  IfMatch(isMatch(value, s.position, <<"(">>),
    LAMBDA p : Bind(matchCoordinate(value, At(s, p), options), LAMBDA c :
               Bind(expectGroupEnd(value, c), LAMBDA e :
               matchCoordinatesWhile(value, e, options, Append(coordinates, c.value)))),
    LAMBDA p : Bind(matchCoordinate(value, At(s, p), options), LAMBDA c :
               matchCoordinatesWhile(value, c, options, Append(coordinates, c.value))))

\* a variant that takes every further coordinate in a nested call
matchCoordinatesWhileNested(value, s, options, coordinates) ==
  IfMatch(isMatch(value, s.position, <<",">>),
    LAMBDA p : matchCoordinatesLoop(value, Enter(At(s, p)), options, coordinates),
    LAMBDA p : Ok(s, p, coordinates))

\* while (this.isMatch(","))
matchCoordinatesWhile(value, s, options, coordinates) ==
  IfMatch(isMatch(value, s.position, <<",">>),
    LAMBDA p : matchCoordinatesLoop(value, Again(s, p), options, coordinates),
    LAMBDA p : Ok(s, p, coordinates))

matchCoordinates(value, s, options) == matchCoordinatesLoop(value, s, options, <<>>)

\* a variant that ignores options.emptyAsNull
emptyGeometryTyped(options, type) ==
  IF type = "GeometryCollection" THEN [type |-> type, geometries |-> <<>>]
  ELSE [type |-> type, coordinates |-> <<>>]

\* options.emptyAsNull ? null : { type, coordinates: [] }
emptyGeometry(options, type) ==
  IF options.emptyAsNull = "true" THEN Null
  ELSE IF type = "GeometryCollection" THEN [type |-> type, geometries |-> <<>>]
  ELSE [type |-> type, coordinates |-> <<>>]

parseWktPoint(value, s, options) ==
  IfMatch(isMatch(value, s.position, EMPTY),
    LAMBDA p : Ok(s, p, emptyGeometry(options, "Point")),
    LAMBDA p : Bind(expectGroupStart(value, At(s, p)), LAMBDA a :
               Bind(matchCoordinate(value, a, options), LAMBDA c :
               Bind(expectGroupEnd(value, c), LAMBDA e :
               Ok(e, e.position, [type |-> "Point", coordinates |-> c.value])))))

\* expectGroupStart(); matchCoordinates(options); expectGroupEnd()
coordinateGroup(value, s, options) ==
  Bind(expectGroupStart(value, s), LAMBDA a :
  Bind(matchCoordinates(value, a, options), LAMBDA c :
  Bind(expectGroupEnd(value, c), LAMBDA e : Ok(e, e.position, c.value))))

parseWktLineString(value, s, options) ==
  IfMatch(isMatch(value, s.position, EMPTY),
    LAMBDA p : Ok(s, p, emptyGeometry(options, "LineString")),
    LAMBDA p : Bind(coordinateGroup(value, At(s, p), options), LAMBDA c :
               Ok(c, c.position, [type |-> "LineString", coordinates |-> c.value])))

parseWktMultiPoint(value, s, options) ==
  IfMatch(isMatch(value, s.position, EMPTY),
    LAMBDA p : Ok(s, p, emptyGeometry(options, "MultiPoint")),
    LAMBDA p : Bind(coordinateGroup(value, At(s, p), options), LAMBDA c :
               Ok(c, c.position, [type |-> "MultiPoint", coordinates |-> c.value])))

\* one parenthesized coordinate list, then one more after every ","
RECURSIVE ringsLoop(_, _, _, _)
RECURSIVE ringsWhile(_, _, _, _)
ringsLoop(value, s, options, rings) ==
  Bind(coordinateGroup(value, s, options), LAMBDA c :
  ringsWhile(value, c, options, Append(rings, c.value)))

\* a variant that repeats the body once without a "," when no iteration of
\* any loop was made before
ringsWhileIdle(value, s, options, rings) ==
  IfMatch(isMatch(value, s.position, <<",">>),
    LAMBDA p : ringsLoop(value, Again(s, p), options, rings),
    LAMBDA p : IF s.iterations = 0 THEN ringsLoop(value, Again(s, p), options, rings)
               ELSE Ok(s, p, rings))

\* while (value.isMatch(","))
ringsWhile(value, s, options, rings) ==
  IfMatch(isMatch(value, s.position, <<",">>),
    LAMBDA p : ringsLoop(value, Again(s, p), options, rings),
    LAMBDA p : Ok(s, p, rings))

\* expectGroupStart(); the rings; expectGroupEnd()
ringsGroup(value, s, options) ==
  Bind(expectGroupStart(value, s), LAMBDA a :
  Bind(ringsLoop(value, a, options, <<>>), LAMBDA r :
  Bind(expectGroupEnd(value, r), LAMBDA e : Ok(e, e.position, r.value))))

parseWktPolygon(value, s, options) ==
  IfMatch(isMatch(value, s.position, EMPTY),
    LAMBDA p : Ok(s, p, emptyGeometry(options, "Polygon")),
    LAMBDA p : Bind(ringsGroup(value, At(s, p), options), LAMBDA r :
               Ok(r, r.position, [type |-> "Polygon", coordinates |-> r.value])))

parseWktMultiLineString(value, s, options) ==
  IfMatch(isMatch(value, s.position, EMPTY),
    LAMBDA p : Ok(s, p, emptyGeometry(options, "MultiLineString")),
    LAMBDA p : Bind(ringsGroup(value, At(s, p), options), LAMBDA r :
               Ok(r, r.position, [type |-> "MultiLineString", coordinates |-> r.value])))

RECURSIVE polygonsLoop(_, _, _, _)
RECURSIVE polygonsWhile(_, _, _, _)
polygonsLoop(value, s, options, coordinates) ==
  Bind(ringsGroup(value, s, options), LAMBDA r :
  polygonsWhile(value, r, options, Append(coordinates, r.value)))

polygonsWhile(value, s, options, coordinates) ==
  IfMatch(isMatch(value, s.position, <<",">>),
    LAMBDA p : polygonsLoop(value, Again(s, p), options, coordinates),
    LAMBDA p : Ok(s, p, coordinates))

parseWktMultiPolygon(value, s, options) ==
  IfMatch(isMatch(value, s.position, EMPTY),
    LAMBDA p : Ok(s, p, emptyGeometry(options, "MultiPolygon")),
    LAMBDA p : Bind(expectGroupStart(value, At(s, p)), LAMBDA a :
               Bind(polygonsLoop(value, a, options, <<>>), LAMBDA r :
               Bind(expectGroupEnd(value, r), LAMBDA e :
               Ok(e, e.position, [type |-> "MultiPolygon", coordinates |-> r.value])))))

\* the srid of the SRID= prefix matched here, null (<<>>) when there is none
sridOf(m) == IF m.ok THEN <<parseInt(m.groups[1])>> ELSE <<>>

\* { ...userOptions, srid, hasZ, hasM }
wktOptions(userOptions_, srid, dimension) ==
  [emptyAsNull |-> userOptions_.emptyAsNull, proj |-> userOptions_.proj,
   srid |-> srid, hasZ |-> dimension.hasZ, hasM |-> dimension.hasM]

RECURSIVE wktToGeoJSONinner(_, _, _)
RECURSIVE geometriesLoop(_, _, _, _)
RECURSIVE geometriesWhile(_, _, _, _)

\* a variant that puts the child in front (unshift for push)
pushGeometryFront(geometries, g) ==
  IF g.type = "null" THEN geometries ELSE <<g>> \o geometries

\* a variant without the test of the child
pushGeometryAlways(geometries, g) == Append(geometries, g)

\* if (geometry) geometries.push(geometry)
pushGeometry(geometries, g) ==
  IF g.type = "null" THEN geometries ELSE Append(geometries, g)

geometriesLoop(value, s, options, geometries) ==
  Bind(wktToGeoJSONinner(value, s, options), LAMBDA g :
  geometriesWhile(value, g, options, pushGeometry(geometries, g.value)))

geometriesWhile(value, s, options, geometries) ==
  IfMatch(isMatch(value, s.position, <<",">>),
    LAMBDA p : geometriesLoop(value, Again(s, p), options, geometries),
    LAMBDA p : Ok(s, p, geometries))

parseWktGeometryCollection(value, s, options) ==
  IfMatch(isMatch(value, s.position, EMPTY),
    LAMBDA p : Ok(s, p, emptyGeometry(options, "GeometryCollection")),
    LAMBDA p : Bind(expectGroupStart(value, At(s, p)), LAMBDA a :
               Bind(geometriesLoop(value, a, options, <<>>), LAMBDA g :
               Bind(expectGroupEnd(value, g), LAMBDA e :
               Ok(e, e.position, [type |-> "GeometryCollection", geometries |-> g.value])))))

\* the switch over geometryType
dispatch(value, s, geometryType, options) ==
  CASE geometryType = WKT_GEOMETRY_TYPES[1] -> parseWktPoint(value, s, options)
    [] geometryType = WKT_GEOMETRY_TYPES[2] -> parseWktLineString(value, s, options)
    [] geometryType = WKT_GEOMETRY_TYPES[3] -> parseWktPolygon(value, s, options)
    [] geometryType = WKT_GEOMETRY_TYPES[4] -> parseWktMultiPoint(value, s, options)
    [] geometryType = WKT_GEOMETRY_TYPES[5] -> parseWktMultiLineString(value, s, options)
    [] geometryType = WKT_GEOMETRY_TYPES[6] -> parseWktMultiPolygon(value, s, options)
    [] geometryType = WKT_GEOMETRY_TYPES[7] -> parseWktGeometryCollection(value, s, options)

\* a variant in which a nested geometry without a dimension token of its own
\* takes the flags of the options it is called with
afterTypeInherited(value, t, srid, userOptions_, dimension) ==
  dispatch(value, At(t, dimension.position), t.value,
           wktOptions(userOptions_, srid,
                      IF "hasZ" \in DOMAIN userOptions_ /\ ~dimension.hasZ /\ ~dimension.hasM
                      THEN [hasZ |-> userOptions_.hasZ, hasM |-> userOptions_.hasM]
                      ELSE dimension))

\* a variant that tests the SRID before the geometry is read
afterTypeEager(value, t, srid, userOptions_, dimension) ==
  IF sridNeedsProj(srid) /\ userOptions_.proj = "undefined"
  THEN Throw(t, "EWKT data in an unknown SRID was provided, but a proj function was not",
             dimension.position)
  ELSE dispatch(value, At(t, dimension.position), t.value,
                wktOptions(userOptions_, srid, dimension))

\* from matchDimension on
afterType(value, t, srid, userOptions_, dimension) ==
  dispatch(value, At(t, dimension.position), t.value,
           wktOptions(userOptions_, srid, dimension))

\* from matchType on
afterSrid(value, s, m, userOptions_) ==
  Bind(matchType(value, At(s, m.position)), LAMBDA t :
  afterType(value, t, sridOf(m), userOptions_, matchDimension(value, t.position)))

wktToGeoJSONinner(value, s, userOptions_) ==
  Leave(afterSrid(value, Enter(s), matchSrid(value, s.position), userOptions_))

\* the options parameter's default value
defaultOptions == [omitted |-> FALSE, emptyAsNull |-> "true", proj |-> "undefined"]

\* wktToGeoJSON(wkt, options = { emptyAsNull: true }); an omitted argument is
\* the record with omitted = TRUE
wktToGeoJSON(wkt_, options) ==
  wktToGeoJSONinner(wkt_, [position |-> 0, calls |-> <<>>, active |-> 0, peak |-> 0,
                           iterations |-> 0, forward |-> TRUE],
                    IF options.omitted THEN defaultOptions ELSE options)

(***************************************************************************)
(* Serializer                                                              *)
(***************************************************************************)
\* Array.prototype.join(separator) of an array of texts
RECURSIVE join(_, _)
join(texts, separator) ==
  IF Len(texts) = 0 THEN <<>>
  ELSE IF Len(texts) = 1 THEN texts[1]
  ELSE texts[1] \o separator \o join(Tail(texts), separator)

stringifyCoordinate(point) ==
  join([i \in 1..Len(point) |-> numberToString(point[i])], <<" ">>)

\* position is <<>> for undefined, else <<the position>>
\* a variant that also writes a ZM token
stringifyZMFull(position) ==
  IF Len(position) = 0 THEN <<" ">>
  ELSE IF Len(position[1]) = 3 THEN <<" ", "Z", " ">>
  ELSE IF Len(position[1]) = 4 THEN <<" ", "Z", "M", " ">>
  ELSE <<" ">>

stringifyZM(position) ==
  IF Len(position) = 0 THEN <<" ">>
  ELSE IF Len(position[1]) = 3 THEN <<" ","Z"," ">>
  ELSE <<" ">>

\* array[0], optional
first(array) == IF Len(array) = 0 THEN <<>> ELSE <<array[1]>>

\* coordinates.map(stringifyCoordinate) joined by ","
stringifyCoordinates(coordinates) ==
  join([i \in 1..Len(coordinates) |-> stringifyCoordinate(coordinates[i])], <<",">>)

\* rings.map(ring => "(" + ring.map(stringifyCoordinate) + ")"), joined by ","
stringifyRings(rings) ==
  join([i \in 1..Len(rings) |-> <<"(">> \o stringifyCoordinates(rings[i]) \o <<")">>],
       <<",">>)

\* a variant without the EMPTY case
stringifyPointBare(point) ==
  WKT_GEOMETRY_TYPES[1] \o <<" ", "(">> \o stringifyCoordinate(point.coordinates) \o <<")">>

stringifyPoint(point) ==
  IF Len(point.coordinates) = 0 THEN WKT_GEOMETRY_TYPES[1] \o <<" ">> \o EMPTY
  ELSE WKT_GEOMETRY_TYPES[1] \o stringifyZM(<<point.coordinates>>)
       \o <<"(">> \o stringifyCoordinate(point.coordinates) \o <<")">>

stringifyMultiPoint(g) ==
  IF Len(g.coordinates) = 0 THEN WKT_GEOMETRY_TYPES[4] \o <<" ">> \o EMPTY
  ELSE WKT_GEOMETRY_TYPES[4] \o stringifyZM(first(g.coordinates))
       \o <<"(">> \o stringifyCoordinates(g.coordinates) \o <<")">>

stringifyLineString(g) ==
  IF Len(g.coordinates) = 0 THEN WKT_GEOMETRY_TYPES[2] \o <<" ">> \o EMPTY
  ELSE WKT_GEOMETRY_TYPES[2] \o stringifyZM(first(g.coordinates))
       \o <<"(">> \o stringifyCoordinates(g.coordinates) \o <<")">>

stringifyMultiLineString(g) ==
  IF Len(g.coordinates) = 0 THEN WKT_GEOMETRY_TYPES[5] \o <<" ">> \o EMPTY
  ELSE WKT_GEOMETRY_TYPES[5] \o stringifyZM(first(g.coordinates[1]))
       \o <<"(">> \o stringifyRings(g.coordinates) \o <<")">>

stringifyPolygon(g) ==
  IF Len(g.coordinates) = 0 THEN WKT_GEOMETRY_TYPES[3] \o <<" ">> \o EMPTY
  ELSE WKT_GEOMETRY_TYPES[3] \o stringifyZM(first(g.coordinates[1]))
       \o <<"(">> \o stringifyRings(g.coordinates) \o <<")">>

stringifyMultiPolygon(g) ==
  IF Len(g.coordinates) = 0 THEN WKT_GEOMETRY_TYPES[6] \o <<" ">> \o EMPTY
  ELSE WKT_GEOMETRY_TYPES[6]
       \o stringifyZM(IF Len(g.coordinates[1]) = 0 THEN <<>>
                      ELSE first(g.coordinates[1][1]))
       \o <<"(">>
       \o join([i \in 1..Len(g.coordinates) |->
                  <<"(">> \o stringifyRings(g.coordinates[i]) \o <<")">>], <<",">>)
       \o <<")">>

RECURSIVE geoJSONToWkt(_)

stringifyGeometryCollection(g) ==
  IF Len(g.geometries) = 0 THEN WKT_GEOMETRY_TYPES[7] \o <<" ">> \o EMPTY
  ELSE WKT_GEOMETRY_TYPES[7] \o <<"(">>
       \o join([i \in 1..Len(g.geometries) |-> geoJSONToWkt(g.geometries[i])], <<",">>)
       \o <<")">>

geoJSONToWkt(g) ==
  CASE g.type = "Point" -> stringifyPoint(g)
    [] g.type = "LineString" -> stringifyLineString(g)
    [] g.type = "MultiPoint" -> stringifyMultiPoint(g)
    [] g.type = "GeometryCollection" -> stringifyGeometryCollection(g)
    [] g.type = "Polygon" -> stringifyPolygon(g)
    [] g.type = "MultiPolygon" -> stringifyMultiPolygon(g)
    [] g.type = "MultiLineString" -> stringifyMultiLineString(g)

(***************************************************************************)
(* Inputs.  A document descriptor fixes a geometry and the way its text    *)
(* is written; the geometry is what the text denotes.                      *)
(***************************************************************************)
MaxCoords == 2
MaxRings == 2
MaxChildren == 2
MaxDepth == 2
MaxSeed == 1

TypeNames == <<"Point", "LineString", "Polygon", "MultiPoint",
               "MultiLineString", "MultiPolygon", "GeometryCollection">>

UpperLetters == <<"A","B","C","D","E","F","G","H","I","J","K","L","M",
                  "N","O","P","Q","R","S","T","U","V","W","X","Y","Z">>
LowerLetters == <<"a","b","c","d","e","f","g","h","i","j","k","l","m",
                  "n","o","p","q","r","s","t","u","v","w","x","y","z">>

toUpperCase(text) ==
  [i \in 1..Len(text) |->
     IF \E k \in 1..26 : LowerLetters[k] = text[i]
     THEN UpperLetters[CHOOSE k \in 1..26 : LowerLetters[k] = text[i]]
     ELSE text[i]]

toLowerCase(text) ==
  [i \in 1..Len(text) |->
     IF \E k \in 1..26 : UpperLetters[k] = text[i]
     THEN LowerLetters[CHOOSE k \in 1..26 : UpperLetters[k] = text[i]]
     ELSE text[i]]

\* the numbers that appear in documents, in tenths
Pool == <<10, 20, -15, 205, 100, 0, 3395, -8338>>

\* the k-th position (k >= 0) of a document
PositionAt(k, arity, seed) ==
  [c \in 1..arity |-> Num(Pool[((seed * 3 + k * arity + c - 1) % Len(Pool)) + 1])]

ListAt(k, n, arity, seed) == [i \in 1..n |-> PositionAt(k + i - 1, arity, seed)]

RingsAt(k, r, n, arity, seed) == [j \in 1..r |-> ListAt(k + (j - 1) * n, n, arity, seed)]

\* a geometry of one of the six kinds with coordinates
SimpleGeometry(kind, arity, n, r, seed) ==
  [type |-> TypeNames[kind],
   coordinates |->
     CASE kind = 1 -> PositionAt(0, arity, seed)
       [] kind \in {2, 4} -> ListAt(0, n, arity, seed)
       [] kind \in {3, 5} -> RingsAt(0, r, n, arity, seed)
       [] kind = 6 -> [q \in 1..r |-> RingsAt((q - 1) * r * n, r, n, arity, seed)]]

EmptyGeometry(kind) ==
  IF kind = 7 THEN [type |-> TypeNames[7], geometries |-> <<>>]
  ELSE [type |-> TypeNames[kind], coordinates |-> <<>>]

ChildKind(d, i) == ((d.child + i - 2) % 6) + 1

RECURSIVE Collection(_, _)
Collection(d, depth) ==
  [type |-> TypeNames[7],
   geometries |->
     (IF d.empty = "child" THEN <<EmptyGeometry(ChildKind(d, 1))>> ELSE <<>>)
     \o [i \in 1..d.children |->
           SimpleGeometry(ChildKind(d, i), d.arity, d.n, d.r, d.seed + i)]
     \o (IF depth > 1 THEN <<Collection(d, depth - 1)>> ELSE <<>>)]

\* the geometry a descriptor denotes
GeometryOf(d) ==
  IF d.empty = "self" THEN EmptyGeometry(d.kind)
  ELSE IF d.kind = 7 THEN Collection(d, d.depth)
  ELSE SimpleGeometry(d.kind, d.arity, d.n, d.r, d.seed)

\* a keyword in the letter case of the document
Cased(d, keyword) == IF d.case = "lower" THEN toLowerCase(keyword) ELSE keyword

WritePosition(p) == join([i \in 1..Len(p) |-> numberToString(p[i])], <<" ">>)

WriteList(l) == join([i \in 1..Len(l) |-> WritePosition(l[i])], <<",">>)

WriteRings(rs) ==
  join([i \in 1..Len(rs) |-> <<"(">> \o WriteList(rs[i]) \o <<")">>], <<",">>)

\* keyword, dimension token, and the gap before "("
WriteHead(d, kind, arity) ==
  Cased(d, WKT_GEOMETRY_TYPES[kind])
  \o (CASE arity = 3 -> <<" ">> \o Cased(d, <<"Z">>) \o <<" ">>
        [] arity = 4 -> <<" ">> \o Cased(d, <<"Z","M">>) \o <<" ">>
        [] OTHER -> d.gap)

KindOf(g) == CHOOSE k \in 1..7 : TypeNames[k] = g.type

\* the SRID= prefix a "nested" document puts before every child of a collection
WriteNested(d) ==
  IF d.prefix = "nested" THEN SRIDEQ \o natToString(d.srid) \o <<";">> ELSE <<>>

RECURSIVE Write(_, _)
WriteKind(d, g, kind) ==
  IF kind = 7
  THEN IF Len(g.geometries) = 0
       THEN Cased(d, WKT_GEOMETRY_TYPES[7]) \o <<" ">> \o Cased(d, EMPTY)
       ELSE Cased(d, WKT_GEOMETRY_TYPES[7]) \o <<"(">>
            \o join([i \in 1..Len(g.geometries) |->
                       WriteNested(d) \o Write(d, g.geometries[i])], <<",">>)
            \o <<")">>
  ELSE IF Len(g.coordinates) = 0
  THEN Cased(d, WKT_GEOMETRY_TYPES[kind]) \o <<" ">> \o Cased(d, EMPTY)
  ELSE CASE kind = 1 ->
              WriteHead(d, kind, Len(g.coordinates))
              \o <<"(">> \o WritePosition(g.coordinates) \o <<")">>
         [] kind \in {2, 4} ->
              WriteHead(d, kind, Len(g.coordinates[1]))
              \o <<"(">> \o WriteList(g.coordinates) \o <<")">>
         [] kind \in {3, 5} ->
              WriteHead(d, kind, Len(g.coordinates[1][1]))
              \o <<"(">> \o WriteRings(g.coordinates) \o <<")">>
         [] kind = 6 ->
              WriteHead(d, kind, Len(g.coordinates[1][1][1]))
              \o <<"(">>
              \o join([i \in 1..Len(g.coordinates) |->
                         <<"(">> \o WriteRings(g.coordinates[i]) \o <<")">>], <<",">>)
              \o <<")">>

\* the text of geometry g in the style of document d
Write(d, g) == WriteKind(d, g, KindOf(g))

IRI4326 == <<"<","h","t","t","p",":","/","/","w","w","w",".","o","p","e","n","g","i","s",
             ".","n","e","t","/","d","e","f","/","c","r","s","/","E","P","S","G","/","0",
             "/","4","3","2","6",">">>

\* an IRI that is not of the form http://www.opengis.net/def/crs/EPSG/0/<digits>
IRIOther == <<"<","h","t","t","p",":","/","/","w","w","w",".","g","o","o","g","l","e",
              ".","c","o","m","/",">">>

\* the CRS prefix of a document: none, SRID=<srid>; or the GeoSPARQL IRI
\* (a "nested" document has none at its start)
WritePrefix(d) ==
  CASE d.prefix = "srid" -> Cased(d, SRIDEQ) \o natToString(d.srid) \o <<";">>
    [] d.prefix = "iri" -> IRI4326 \o <<" ">>
    [] d.prefix = "badiri" -> IRIOther \o <<" ">>
    [] OTHER -> <<>>

\* the least index i >= from with text[i] in chars, Len(text) + 1 when none
RECURSIVE FirstIn(_, _, _)
FirstIn(text, chars, from) ==
  IF from > Len(text) THEN Len(text) + 1
  ELSE IF text[from] \in chars THEN from
  ELSE FirstIn(text, chars, from + 1)

\* the greatest index i <= from with text[i] in chars, 0 when none
RECURSIVE LastIn(_, _, _)
LastIn(text, chars, from) ==
  IF from < 1 THEN 0
  ELSE IF text[from] \in chars THEN from
  ELSE LastIn(text, chars, from - 1)

\* text without its characters i..j
RemoveRange(text, i, j) == SubSeq(text, 1, i - 1) \o SubSeq(text, j + 1, Len(text))

\* text with extra put before its character i
InsertAt(text, i, extra) == SubSeq(text, 1, i - 1) \o extra \o SubSeq(text, i, Len(text))

NumberStart == {"-", "0", "1", "2", "3", "4", "5", "6", "7", "8", "9"}

\* the text without the second field of its first coordinate; j is the space
\* that ends the first field
DropField(text, j) == RemoveRange(text, j, FirstIn(text, {" ", ",", ")"}, j + 1) - 1)

\* a well-formed text made malformed in one place
Damage(d, text) ==
  CASE d.defect = "keyword" -> <<"X">> \o text
    [] d.defect = "nostart" ->
         RemoveRange(text, FirstIn(text, {"("}, 1), FirstIn(text, {"("}, 1))
    [] d.defect = "noend" -> SubSeq(text, 1, Len(text) - 1)
    [] d.defect = "nostart2" ->
         RemoveRange(text, LastIn(text, {"("}, Len(text)), LastIn(text, {"("}, Len(text)))
    [] d.defect = "noend2" ->
         RemoveRange(text, FirstIn(text, {")"}, 1), FirstIn(text, {")"}, 1))
    [] d.defect = "tail" -> text \o <<")">>
    [] d.defect = "twice" -> text \o <<" ">> \o text
    [] d.defect = "nan" ->
         InsertAt(RemoveRange(text, FirstIn(text, NumberStart, 1),
                              FirstIn(text, NumberStart, 1)),
                  FirstIn(text, NumberStart, 1), <<"x">>)
    [] d.defect = "short" ->
         DropField(text, FirstIn(text, {" "}, FirstIn(text, NumberStart, 1)))
    [] d.defect = "long" ->
         InsertAt(text, FirstIn(text, {" "}, FirstIn(text, NumberStart, 1)), <<" ", "7">>)
    [] d.defect = "wkeyword" -> <<d.white>> \o text
    [] d.defect = "wchild" -> InsertAt(text, FirstIn(text, {"("}, 1) + 1, <<d.white>>)
    [] d.defect = "wdim" -> InsertAt(text, FirstIn(text, {"Z"}, 1), <<d.white>>)
    [] d.defect = "wstart" -> InsertAt(text, FirstIn(text, {"("}, 1), <<d.white>>)
    [] d.defect = "wstart2" -> InsertAt(text, LastIn(text, {"("}, Len(text)), <<d.white>>)
    [] d.defect = "wend" -> InsertAt(text, FirstIn(text, {")"}, 1), <<d.white>>)
    [] d.defect = "wend2" -> InsertAt(text, LastIn(text, {")"}, Len(text)), <<d.white>>)
    [] d.defect = "wcomma" -> InsertAt(text, FirstIn(text, {","}, 1), <<d.white>>)
    [] d.defect = "wcomma2" -> InsertAt(text, LastIn(text, {","}, Len(text)), <<d.white>>)
    [] OTHER -> text

RECURSIVE Concat(_)
Concat(ss) == IF Len(ss) = 0 THEN <<>> ELSE Head(ss) \o Concat(Tail(ss))

\* each coordinate of a list in parentheses of its own
LegacyChar(c) ==
  CASE c = "(" -> <<"(", "(">>
    [] c = ")" -> <<")", ")">>
    [] c = "," -> <<")", ",", "(">>
    [] OTHER -> <<c>>

Legacy(text) == Concat([i \in 1..Len(text) |-> LegacyChar(text[i])])

\* the dimension token M in the place of every Z
MForZ(text) == [i \in 1..Len(text) |-> IF text[i] = "Z" THEN "M" ELSE text[i]]

\* the spaces between the numeric fields (those after the first number) replaced
FieldSpaces(text, from, white) ==
  [i \in 1..Len(text) |-> IF i > from /\ text[i] = " " THEN white ELSE text[i]]

\* a well-formed text written in another form the grammar has
Reform(d, text) ==
  CASE d.form = "m" -> MForZ(text)
    [] d.form = "legacy" -> Legacy(text)
    [] d.form = "gcz" -> InsertAt(text, Len(WKT_GEOMETRY_TYPES[7]) + 1, <<" ", "Z", " ">>)
    [] d.form = "gczm" -> InsertAt(text, Len(WKT_GEOMETRY_TYPES[7]) + 1, <<" ", "Z", "M", " ">>)
    [] d.form = "field" -> FieldSpaces(text, FirstIn(text, NumberStart, 1), d.white)
    [] OTHER -> text

TextOf(d) == Damage(d, WritePrefix(d) \o Reform(d, Write(d, GeometryOf(d))))

\* the shapes: every kind, arity and size within the bounds
Shapes ==
  [kind : {1}, arity : {2, 3, 4}, n : {1}, r : {1}, seed : 0..MaxSeed,
   children : {0}, depth : {0}, child : {0}, empty : {"none"}]
  \cup
  [kind : {2, 4}, arity : {2, 3, 4}, n : 1..MaxCoords, r : {1}, seed : 0..MaxSeed,
   children : {0}, depth : {0}, child : {0}, empty : {"none"}]
  \cup
  [kind : {3, 5, 6}, arity : {2, 3, 4}, n : 1..MaxCoords, r : 1..MaxRings, seed : 0..MaxSeed,
   children : {0}, depth : {0}, child : {0}, empty : {"none"}]
  \cup
  [kind : {7}, arity : {2, 3, 4}, n : {MaxCoords}, r : {1}, seed : {0},
   children : 1..MaxChildren, depth : 1..MaxDepth, child : 1..6, empty : {"none", "child"}]
  \cup
  [kind : 1..7, arity : {2}, n : {1}, r : {1}, seed : {0},
   children : {0}, depth : {0}, child : {0}, empty : {"self"}]

\* the shapes used with a CRS prefix: the largest of each kind
LargeShapes ==
  {s \in Shapes : /\ s.seed = 0
                  /\ s.kind \in {2, 3, 4, 5, 6} /\ s.empty = "none" => s.n = MaxCoords
                  /\ s.kind \in {3, 5, 6} /\ s.empty = "none" => s.r = MaxRings
                  /\ s.kind = 7 => s.children = MaxChildren /\ s.child = 1}

Styled(s, origin_, case, gap, prefix, srid) ==
  [kind |-> s.kind, arity |-> s.arity, n |-> s.n, r |-> s.r, seed |-> s.seed,
   children |-> s.children, depth |-> s.depth, child |-> s.child, empty |-> s.empty,
   origin |-> origin_, case |-> case, gap |-> gap, prefix |-> prefix, srid |-> srid,
   defect |-> "none", form |-> "plain", white |-> " "]

\* the ways a text is made malformed
Defects == {"keyword", "nostart", "noend", "nostart2", "noend2", "tail", "twice", "nan", "short", "long"}

\* the shapes whose texts are made malformed
BrokenShapes ==
  {s \in Shapes : s.seed = 0 /\ s.empty = "none" /\ (s.kind = 7 => s.child = 1)}

Broken(s, defect) ==
  [Styled(s, "broken", "upper", <<" ">>, "none", 0) EXCEPT !.defect = defect]

\* the white space characters other than the space
Whites == {"\t", "\n"}

\* the places where a white space character is put before a token
WhiteDefects == {"wkeyword", "wchild", "wdim", "wstart", "wstart2", "wend", "wend2",
                 "wcomma", "wcomma2"}

\* the place exists in the texts of shape s
HasPlace(s, defect) ==
  CASE defect = "wdim" -> s.arity \in {3, 4}
    [] defect = "wchild" -> s.kind = 7
    [] defect \in {"wcomma", "wcomma2"} ->
         IF s.kind = 7 THEN s.children > 1 \/ s.depth > 1
         ELSE s.n > 1 \/ (s.kind \in {3, 5, 6} /\ s.r > 1)
    [] OTHER -> TRUE

Whitened(s, defect, white) ==
  [Styled(s, "broken", "upper", <<" ">>, "none", 0)
     EXCEPT !.defect = defect, !.white = white]

\* a text in another form: M for Z, MULTIPOINT ((..),(..)), a dimension token
\* on a GEOMETRYCOLLECTION, white space between the numeric fields
Formed(s, form, white) ==
  [Styled(s, "variant", "upper", <<" ">>, "none", 0)
     EXCEPT !.form = form, !.white = white]

FormedShapes(form) ==
  CASE form = "m" -> {s \in BrokenShapes : s.arity = 3}
    [] form = "legacy" -> {s \in Shapes : s.kind = 4 /\ s.empty = "none"}
    [] form \in {"gcz", "gczm"} -> {s \in BrokenShapes : s.kind = 7 /\ s.arity = 2}
    [] form = "field" -> {s \in BrokenShapes : s.kind # 7}

Srids == {4326, 3857, 0}

Documents ==
  {Styled(s, "geojson", "upper", <<" ">>, "none", 0) : s \in Shapes}
  \cup {Styled(s, "wkt", "upper", g, "none", 0) : s \in Shapes, g \in {<<" ">>, <<>>}}
  \cup {Styled(s, "wkt", "lower", <<" ">>, "none", 0) : s \in Shapes}
  \cup {Styled(s, "wkt", c, <<>>, "srid", n) :
          s \in LargeShapes, c \in {"upper", "lower"}, n \in Srids}
  \cup {Styled(s, "wkt", "upper", <<>>, "iri", 4326) : s \in LargeShapes}
  \cup {Styled(s, "wkt", "upper", <<>>, "nested", 3857) :
          s \in {t \in LargeShapes : t.kind = 7 /\ t.empty = "none"}}
  \cup {Styled(s, "wkt", "upper", <<>>, "badiri", 0) : s \in LargeShapes}
  \cup {Broken(s, x) : s \in BrokenShapes, x \in Defects}
  \cup {d \in {Whitened(s, x, w) : s \in BrokenShapes, x \in WhiteDefects, w \in Whites} :
          HasPlace(d, d.defect)}
  \cup {Formed(s, "m", " ") : s \in FormedShapes("m")}
  \cup {Formed(s, "legacy", " ") : s \in FormedShapes("legacy")}
  \cup {[Formed(s, "legacy", " ") EXCEPT !.origin = "broken", !.defect = x] :
          s \in FormedShapes("legacy"), x \in {"noend", "noend2"}}
  \cup {Formed(s, f, " ") : s \in FormedShapes("gcz"), f \in {"gcz", "gczm"}}
  \cup {Formed(s, "field", w) : s \in FormedShapes("field"), w \in Whites}
  \cup {[Styled(s, "broken", "upper", <<>>, "srid", 3857) EXCEPT !.defect = x] :
          s \in BrokenShapes, x \in {"keyword", "nostart"}}

\* what a caller passes as the options argument
UserOptions ==
  {[omitted |-> TRUE, emptyAsNull |-> "undefined", proj |-> "undefined"]}
  \cup [omitted : {FALSE}, emptyAsNull : {"undefined", "true", "false"},
        proj : {"undefined", "fn"}]
  \cup {[omitted |-> FALSE, emptyAsNull |-> "undefined", proj |-> "flat"]}

(***************************************************************************)
(* The conversions as a state machine: a caller holds a text or a          *)
(* geometry and applies wktToGeoJSON and geoJSONToWkt in turn.             *)
(***************************************************************************)
Init ==
  \E d \in Documents, o \in UserOptions :
    /\ d.origin \in {"geojson", "broken", "variant"} => o.omitted
    /\ o.proj = "flat" => (d.prefix = "srid" /\ d.srid = 3857 /\ d.case = "upper")
    /\ (d.prefix = "none" /\ d.empty = "none") =>
         (o.omitted \/ (o.emptyAsNull = "false") # (o.proj = "fn"))
    /\ doc = d
    /\ userOptions = o
    /\ given = GeometryOf(d)
    /\ source = IF d.origin = "geojson" THEN <<>> ELSE TextOf(d)
    /\ wkt = IF d.origin = "geojson" THEN <<>> ELSE TextOf(d)
    /\ geometry = IF d.origin = "geojson" THEN GeometryOf(d) ELSE Null
    /\ error = ""
    /\ projLog = <<>>
    /\ stack = 0
    /\ iterations = 0
    /\ scanner = [position |-> 0, forward |-> TRUE]
    /\ pc = IF d.origin = "geojson" THEN "stringify" ELSE "parse"

WktToGeoJSON ==
  /\ pc = "parse"
  /\ \E r \in {wktToGeoJSON(wkt, userOptions)} :
        /\ geometry' = r.value
        /\ error' = r.error
        /\ projLog' = r.calls
        /\ stack' = r.peak
        /\ iterations' = r.iterations
        /\ scanner' = [position |-> r.position, forward |-> r.forward]
        /\ pc' = IF r.error # "" THEN "threw"
                 ELSE IF r.value.type = "null" THEN "null"
                 ELSE IF doc.origin = "geojson" THEN "returned"
                 ELSE "stringify"
  /\ UNCHANGED <<doc, userOptions, given, source, wkt>>

GeoJSONToWkt ==
  /\ pc = "stringify"
  /\ wkt' = geoJSONToWkt(geometry)
  /\ pc' = IF doc.origin = "geojson" THEN "parse" ELSE "returned"
  /\ UNCHANGED <<doc, userOptions, given, source, geometry, error, projLog, stack,
                 iterations, scanner>>

Next == WktToGeoJSON \/ GeoJSONToWkt

Spec == Init /\ [][Next]_vars

(***************************************************************************)
(* What a document's text denotes, for stating the properties              *)
(***************************************************************************)
\* the options in force: the default value replaces an omitted argument
Resolved(o) == IF o.omitted THEN defaultOptions ELSE o

isEmpty(g) ==
  IF g.type = "GeometryCollection" THEN Len(g.geometries) = 0
  ELSE Len(g.coordinates) = 0

RECURSIVE Pruned(_)
RECURSIVE PrunedList(_)
\* g without the EMPTY children of its collections
Pruned(g) ==
  IF g.type = "GeometryCollection"
  THEN [type |-> g.type, geometries |-> PrunedList(g.geometries)]
  ELSE g

PrunedList(gs) ==
  IF Len(gs) = 0 THEN <<>>
  ELSE IF isEmpty(Head(gs)) THEN PrunedList(Tail(gs))
  ELSE <<Pruned(Head(gs))>> \o PrunedList(Tail(gs))

\* the geometry the text of document d denotes under options o
Expected(d, o) ==
  IF Resolved(o).emptyAsNull = "true"
  THEN IF d.empty = "self" THEN Null ELSE Pruned(GeometryOf(d))
  ELSE GeometryOf(d)

RECURSIVE positionsOf(_)
\* the positions of g in document order
positionsOf(g) ==
  CASE g.type = "null" -> <<>>
    [] g.type = "GeometryCollection" ->
         Concat([i \in 1..Len(g.geometries) |-> positionsOf(g.geometries[i])])
    [] g.type = "Point" ->
         IF Len(g.coordinates) = 0 THEN <<>> ELSE <<g.coordinates>>
    [] g.type \in {"LineString", "MultiPoint"} -> g.coordinates
    [] g.type \in {"Polygon", "MultiLineString"} -> Concat(g.coordinates)
    [] g.type = "MultiPolygon" ->
         Concat([i \in 1..Len(g.coordinates) |-> Concat(g.coordinates[i])])

\* a position reprojected by a callback, cut to its two leading values, or with
\* its two leading values swapped
Turn(p, how) ==
  CASE how = "proj" -> projFn(<<>>, <<>>, p)
    [] how = "flat" -> projFlat(<<>>, <<>>, p)
    [] how = "xy" -> SubSeq(p, 1, 2)
    [] OTHER -> <<p[2], p[1]>> \o SubSeq(p, 3, Len(p))

TurnList(l, how) == [i \in 1..Len(l) |-> Turn(l[i], how)]

TurnRings(rs, how) == [i \in 1..Len(rs) |-> TurnList(rs[i], how)]

RECURSIVE MapPositions(_, _)
\* g with every position turned
MapPositions(g, how) ==
  CASE g.type = "null" -> g
    [] g.type = "GeometryCollection" ->
         [type |-> g.type,
          geometries |-> [i \in 1..Len(g.geometries) |-> MapPositions(g.geometries[i], how)]]
    [] g.type = "Point" ->
         IF Len(g.coordinates) = 0 THEN g
         ELSE [type |-> g.type, coordinates |-> Turn(g.coordinates, how)]
    [] g.type \in {"LineString", "MultiPoint"} ->
         [type |-> g.type, coordinates |-> TurnList(g.coordinates, how)]
    [] g.type \in {"Polygon", "MultiLineString"} ->
         [type |-> g.type, coordinates |-> TurnRings(g.coordinates, how)]
    [] g.type = "MultiPolygon" ->
         [type |-> g.type,
          coordinates |-> [i \in 1..Len(g.coordinates) |-> TurnRings(g.coordinates[i], how)]]

RECURSIVE GeomEq(_, _)
\* structural equality of two geometries (or nulls)
GeomEq(a, b) ==
  /\ a.type = b.type
  /\ CASE a.type = "null" -> TRUE
       [] a.type = "GeometryCollection" ->
            /\ Len(a.geometries) = Len(b.geometries)
            /\ \A i \in 1..Len(a.geometries) : GeomEq(a.geometries[i], b.geometries[i])
       [] OTHER -> a.coordinates = b.coordinates

\* the calls of proj that one call per position of g, in order, makes
CallsFor(n, ps) ==
  [i \in 1..Len(ps) |->
     [fromProjection |-> EPSG(n), toProjection |-> EPSG(4326), coordinate |-> ps[i]]]

\* wktToGeoJSON has been applied to the text of a text document
Parsed == doc.origin = "wkt" /\ pc # "parse"

\* wktToGeoJSON has been applied to the text geoJSONToWkt made of a geometry
Reparsed == doc.origin = "geojson" /\ pc \in {"returned", "threw", "null"}

NoProjMessage == "EWKT data in an unknown SRID was provided, but a proj function was not"

(***************************************************************************)
(* Properties                                                              *)
(***************************************************************************)
\* C1: for every kind and every non-empty geometry g with finite positions of
\* one arity (2, 3 or 4), wktToGeoJSON(geoJSONToWkt(g)) returns a geometry
\* structurally equal to g.
C1_RoundTripFromGeometry ==
  (Reparsed /\ doc.empty = "none") => (error = "" /\ GeomEq(geometry, given))

\* C2: for every text w in the serializer's layout (keyword, one space,
\* optional Z token, parenthesized body; GEOMETRYCOLLECTION( directly; EMPTY
\* parsed with emptyAsNull = false), in any letter case,
\* geoJSONToWkt(wktToGeoJSON(w)) equals w converted to upper case.
C2_RoundTripFromText ==
  ( /\ doc.origin = "wkt" /\ pc \in {"returned", "threw", "null"}
    /\ doc.prefix = "none" /\ doc.gap = <<" ">> /\ doc.arity \in {2, 3}
    /\ (doc.empty = "none" \/ Resolved(userOptions).emptyAsNull = "false") )
  => (pc = "returned" /\ error = "" /\ wkt = toUpperCase(source))

\* C3: for each of the seven kinds K, "<K> EMPTY" parsed with
\* {emptyAsNull: false} gives the geometry of kind K with zero-length
\* coordinates (geometries for a collection), and parsed with no options
\* argument gives null.
C3_EmptyDuality ==
  (Parsed /\ doc.empty = "self" /\ doc.case = "upper" /\ doc.prefix = "none")
  => /\ (~userOptions.omitted /\ userOptions.emptyAsNull = "false")
          => (error = "" /\ GeomEq(geometry, EmptyGeometry(doc.kind)))
     /\ userOptions.omitted => (error = "" /\ geometry = Null)

\* a reachable state of C3: GEOMETRYCOLLECTION EMPTY parsed with
\* {emptyAsNull: false} gave the collection with no geometries
C3_Witness ==
  /\ Parsed /\ doc.empty = "self" /\ doc.case = "upper" /\ doc.prefix = "none"
  /\ doc.kind = 7 /\ ~userOptions.omitted /\ userOptions.emptyAsNull = "false"
  /\ geometry.type = "GeometryCollection" /\ Len(geometry.geometries) = 0

\* C4: whenever the caller does not set emptyAsNull, also when the options
\* object carries only proj, wktToGeoJSON of an EMPTY geometry returns null.
C4_EmptyAsNullDefault ==
  ( /\ Parsed /\ doc.empty = "self" /\ doc.case = "upper" /\ doc.prefix = "none"
    /\ userOptions.emptyAsNull = "undefined" )
  => (error = "" /\ geometry = Null)

\* the result of parsing the text of the document with upper-case keywords
SameAsUpper(r) == r.error = "" => (error = "" /\ GeomEq(geometry, r.value))

\* C5: changing the letter case of the keyword tokens of a valid input (kind
\* keyword, dimension token, EMPTY, SRID) does not change what wktToGeoJSON
\* returns for it under the same options.
C5_CaseInsensitive ==
  (Parsed /\ doc.case = "lower")
  => SameAsUpper(wktToGeoJSON(TextOf([doc EXCEPT !.case = "upper"]), userOptions))

\* C6: with no CRS prefix or with the prefix SRID=4326, proj is never invoked,
\* whether or not one was supplied, and every position is returned as read.
C6_PassThrough ==
  ( /\ Parsed
    /\ (doc.prefix = "none" \/ (doc.prefix = "srid" /\ doc.srid = 4326)) )
  => /\ projLog = <<>>
     /\ doc.case = "upper" => error = ""
     /\ error = "" => GeomEq(geometry, Expected(doc, userOptions))

\* a reachable state of C6: a MULTIPOLYGON after SRID=4326; parsed with a proj
\* callback, which was not called
C6_Witness ==
  /\ Parsed /\ doc.prefix = "srid" /\ doc.srid = 4326 /\ doc.case = "upper"
  /\ doc.kind = 6 /\ ~userOptions.omitted /\ userOptions.proj = "fn"
  /\ error = "" /\ projLog = <<>> /\ geometry.type = "MultiPolygon"
  /\ Len(positionsOf(geometry)) > 1

\* C7: for every SRID n other than 4326 (0 included), an input with prefix
\* SRID=n; and at least one coordinate, parsed without proj, throws and
\* returns no geometry.
C7_NoProjThrows ==
  ( /\ Parsed /\ doc.prefix = "srid" /\ doc.srid # 4326 /\ doc.case = "upper"
    /\ doc.empty # "self" /\ Resolved(userOptions).proj = "undefined" )
  => (error = NoProjMessage /\ geometry = Null)

\* C8: with a top-level prefix SRID=n;, n other than 4326, and a proj, proj is
\* invoked once per coordinate in document order with ("EPSG:n", "EPSG:4326",
\* the position read), and what it returns takes that coordinate's place.
C8_ProjOncePerCoordinate ==
  ( /\ Parsed /\ doc.prefix = "srid" /\ doc.srid # 4326 /\ doc.case = "upper"
    /\ doc.empty # "self" /\ Resolved(userOptions).proj = "fn" )
  => /\ error = ""
     /\ projLog = CallsFor(doc.srid, positionsOf(Expected(doc, userOptions)))
     /\ GeomEq(geometry, MapPositions(Expected(doc, userOptions), "proj"))

\* C9: the prefix at the start of the input governs every coordinate, also
\* those of the geometries nested in a GEOMETRYCOLLECTION: under SRID=n;, n
\* other than 4326, each child coordinate goes to proj with "EPSG:n", or the
\* parse fails without proj; and a nested geometry reads no prefix of its own.
C9_PrefixGovernsChildren ==
  /\ ( /\ Parsed /\ doc.prefix = "srid" /\ doc.srid = 3857 /\ doc.case = "upper"
       /\ doc.kind = 7 /\ doc.empty # "self" )
     => IF Resolved(userOptions).proj = "undefined" THEN error # ""
        ELSE projLog = CallsFor(doc.srid, positionsOf(Expected(doc, userOptions)))
  /\ (Parsed /\ doc.prefix = "nested") => (error # "" /\ projLog = <<>>)

\* C10: after the prefix <http://www.opengis.net/def/crs/EPSG/0/4326>, without
\* proj, every position read as (a, b, ...) is returned as (b, a, ...).
C10_AxisSwap ==
  ( /\ Parsed /\ doc.prefix = "iri" /\ doc.empty # "self"
    /\ Resolved(userOptions).proj = "undefined" )
  => (error = "" /\ GeomEq(geometry, MapPositions(Expected(doc, userOptions), "swap")))

\* wktToGeoJSON has been applied to a malformed text
ParsedBroken == doc.origin = "broken" /\ pc # "parse"

\* C11: an input whose <...> prefix is not of the form
\* http://www.opengis.net/def/crs/EPSG/0/<digits> makes wktToGeoJSON throw
\* 'GeoSPARQL IRI CRS not recognized', with or without proj, and proj is not
\* called.
C11_UnrecognizedIRI ==
  (Parsed /\ doc.prefix = "badiri")
  => (error = "GeoSPARQL IRI CRS not recognized" /\ geometry = Null /\ projLog = <<>>)

RECURSIVE typesOf(_)
\* the types of g and of the geometries nested in it, in document order
typesOf(g) ==
  IF g.type = "GeometryCollection"
  THEN <<g.type>> \o Concat([i \in 1..Len(g.geometries) |-> typesOf(g.geometries[i])])
  ELSE <<g.type>>

\* the first parenthesized list of a polygon's text is its first ring
FirstRingFirst(g, e) ==
  (g.type = "Polygon" /\ e.type = "Polygon" /\ Len(e.coordinates) > 0)
  => (Len(g.coordinates) > 0 /\ g.coordinates[1] = e.coordinates[1])

\* C12: the children of a parsed GeometryCollection are in input order, and
\* for the other kinds the positions, rings/lines and polygons are in input
\* order (the first ring of a polygon is the first parenthesized list).
C12_OrderPreserved ==
  (Parsed /\ doc.case = "upper" /\ doc.prefix = "none")
  => /\ error = ""
     /\ typesOf(geometry) = typesOf(Expected(doc, userOptions))
     /\ positionsOf(geometry) = positionsOf(Expected(doc, userOptions))
     /\ FirstRingFirst(geometry, Expected(doc, userOptions))

\* a reachable state of C12: a collection parsed into two or more children of
\* different kinds
C12_Witness ==
  /\ Parsed /\ doc.case = "upper" /\ doc.prefix = "none" /\ error = ""
  /\ geometry.type = "GeometryCollection" /\ Len(geometry.geometries) >= 2
  /\ geometry.geometries[1].type # geometry.geometries[2].type
  /\ Len(positionsOf(geometry)) >= 2

RECURSIVE NoEmptyInside(_)
\* no collection in g holds a null or an empty geometry
NoEmptyInside(g) ==
  g.type = "GeometryCollection"
  => \A i \in 1..Len(g.geometries) :
       /\ g.geometries[i].type # "null"
       /\ ~isEmpty(g.geometries[i])
       /\ NoEmptyInside(g.geometries[i])

\* C13: with emptyAsNull = true every EMPTY geometry nested in a collection,
\* at any depth, is left out of its parent's geometries, which hold the other
\* children in input order and never a null; with emptyAsNull = false every
\* EMPTY child is kept in place as a typed geometry without coordinates.
C13_EmptyChildren ==
  (Parsed /\ doc.case = "upper" /\ doc.prefix = "none" /\ doc.empty = "child")
  => /\ Resolved(userOptions).emptyAsNull = "true"
          => /\ error = ""
             /\ NoEmptyInside(geometry)
             /\ GeomEq(geometry, Pruned(given))
     /\ Resolved(userOptions).emptyAsNull = "false"
          => /\ error = ""
             /\ GeomEq(geometry, given)
             /\ isEmpty(geometry.geometries[1])

\* a reachable state of C13: a collection nested in a collection, each with an
\* EMPTY child, parsed with the default options
C13_Witness ==
  /\ Parsed /\ doc.case = "upper" /\ doc.prefix = "none" /\ doc.empty = "child"
  /\ doc.depth = 2 /\ userOptions.omitted /\ error = ""
  /\ geometry.type = "GeometryCollection"
  /\ Len(geometry.geometries) = Len(given.geometries) - 1

\* C14: wktToGeoJSON throws 'Expected geometry type' when the text at the
\* keyword position is no kind keyword, 'Expected group start' when a
\* required "(" is missing and 'Expected group end' when a required ")" is
\* missing, and returns no geometry.
C14_StructuralErrors ==
  ParsedBroken
  => /\ doc.defect = "keyword"
          => (error = "Expected geometry type" /\ geometry = Null /\ pc = "threw")
     /\ doc.defect \in {"nostart", "nostart2"}
          => (error = "Expected group start" /\ geometry = Null /\ pc = "threw")
     /\ doc.defect \in {"noend", "noend2"}
          => (error = "Expected group end" /\ geometry = Null /\ pc = "threw")

\* a reachable state of C14: a MULTIPOLYGON text without its last ")"
C14_Witness ==
  /\ ParsedBroken /\ doc.defect = "noend" /\ doc.kind = 6
  /\ error = "Expected group end" /\ pc = "threw"

\* C15: when a coordinate of the input has not exactly the number of numeric
\* fields its dimension flags require, or has a field that is not a number,
\* the parse throws; no geometry with a NaN component or with a position made
\* of the fields of two coordinates is returned.
C15_MalformedTuple ==
  (ParsedBroken /\ doc.defect \in {"nan", "short", "long"})
  => (error # "" /\ geometry = Null /\ pc = "threw")

\* C16: when characters other than spaces follow the last token of the
\* top-level geometry, wktToGeoJSON throws and returns no geometry.
C16_NoPrefixRecovery ==
  (ParsedBroken /\ doc.defect \in {"tail", "twice"})
  => (error # "" /\ geometry = Null /\ pc = "threw")

\* geoJSONToWkt has just been applied: geometry is its argument, wkt its result
Serialized ==
  \/ doc.origin = "geojson" /\ pc = "parse"
  \/ doc.origin = "wkt" /\ pc = "returned"

IsLetter(c) == \E k \in 1..26 : UpperLetters[k] = c \/ LowerLetters[k] = c

Keyword(g) == WKT_GEOMETRY_TYPES[KindOf(g)]

\* how the text of g begins by C17: keyword, Z token for 3 components, "("
HeadOf(g) ==
  Keyword(g) \o (IF Len(positionsOf(g)[1]) = 3 THEN <<" ", "Z", " ", "(">>
                 ELSE <<" ", "(">>)

\* C17: for every non-collection, non-empty geometry geoJSONToWkt writes the
\* token Z exactly when the first position has 3 components and no dimension
\* token otherwise; the text has no M or ZM token and no SRID or IRI prefix,
\* and keyword and Z are upper-case.
C17_DimensionToken ==
  (Serialized /\ geometry.type # "GeometryCollection" /\ ~isEmpty(geometry))
  => /\ startsWith(wkt, HeadOf(geometry), 0)
     /\ \A i \in (Len(HeadOf(geometry)) + 1)..Len(wkt) : ~IsLetter(wkt[i])
     /\ toUpperCase(wkt) = wkt

\* a reachable state of C17: a geometry with 4 components per position,
\* written without a dimension token
C17_Witness ==
  /\ Serialized /\ doc.origin = "geojson" /\ geometry.type = "Polygon"
  /\ ~isEmpty(geometry) /\ Len(positionsOf(geometry)[1]) = 4
  /\ startsWith(wkt, Keyword(geometry) \o <<" ", "(">>, 0)

\* C18: geoJSONToWkt is total over the seven kinds: a geometry with
\* zero-length coordinates (geometries for a collection) is written as
\* "<KEYWORD> EMPTY", every other one as a text that starts with the
\* upper-case keyword of its kind.
C18_EmptyText ==
  Serialized
  => IF isEmpty(geometry) THEN wkt = Keyword(geometry) \o <<" ">> \o EMPTY
     ELSE Len(wkt) > Len(Keyword(geometry)) /\ startsWith(wkt, Keyword(geometry), 0)

\* a reachable state of C18: the empty Point written as POINT EMPTY
C18_Witness ==
  /\ Serialized /\ doc.origin = "geojson" /\ geometry.type = "Point"
  /\ isEmpty(geometry) /\ wkt = WKT_GEOMETRY_TYPES[1] \o <<" ">> \o EMPTY

RECURSIVE CollectionDepth(_)
RECURSIVE MaxOver(_)
MaxOver(ns) ==
  IF Len(ns) = 0 THEN 0
  ELSE IF Head(ns) > MaxOver(Tail(ns)) THEN Head(ns) ELSE MaxOver(Tail(ns))

\* the number of GEOMETRYCOLLECTION( ... ) groups nested around the innermost
\* geometry of g
CollectionDepth(g) ==
  IF g.type = "GeometryCollection" /\ Len(g.geometries) > 0
  THEN 1 + MaxOver([i \in 1..Len(g.geometries) |-> CollectionDepth(g.geometries[i])])
  ELSE 0

ScanTokens == {<<"(">>, <<")">>, <<",">>, EMPTY}

\* r is the result of match or isMatch called at offset p of value: without a
\* match the offset is as before
Unmoved(p, r) == ~r.ok => r.position = p

\* the texts on which the scanner's operations are tried at every offset: the
\* well-formed and the malformed texts of lists of one or two coordinates,
\* rings and children, each once
ScannerSample ==
  /\ pc = "parse" /\ userOptions.omitted /\ doc.seed = 0
  /\ \/ doc.origin = "broken" /\ doc.defect \in Defects /\ doc.prefix = "none"
     \/ doc.origin = "wkt" /\ doc.prefix = "none" /\ doc.case = "upper" /\ doc.gap = <<" ">>
  /\ doc.r <= 2 /\ doc.children <= 2 /\ doc.depth <= 2 /\ (doc.kind = 7 \/ doc.n <= 2)

\* C20 as stated: when match or isMatch finds no candidate at the current
\* offset the position is the same as before the call.
C20_FrameUnchanged ==
  pc = "parse"
  => \A p \in 0..Len(wkt) :
       /\ \A token \in ScanTokens : Unmoved(p, isMatch(wkt, p, token))
       /\ Unmoved(p, match(wkt, p, WKT_GEOMETRY_TYPES))
       /\ Unmoved(p, match(wkt, p, ZZM))

\* the characters p+1..q of value are spaces and the next one is not
SpacesOnly(value, p, q) ==
  /\ p <= q /\ q <= Len(value)
  /\ \A i \in (p + 1)..q : value[i] = " "
  /\ q < Len(value) => value[q + 1] # " "

\* without a match only leading spaces were passed; with a match the leading
\* spaces and the token, which is what stands there
Moved(value, p, r, token) ==
  IF r.ok
  THEN /\ SpacesOnly(value, p, r.position - Len(token))
       /\ SubSeq(value, r.position - Len(token) + 1, r.position) = token
  ELSE SpacesOnly(value, p, r.position)

\* C20 amended: when match or isMatch finds no candidate it returns no-match
\* and the position has moved past the leading spaces only (the spaces stay
\* skipped); on a match the position moves by the skipped leading spaces plus
\* the length of the matched token.
C20_FrameSpaces ==
  ScannerSample
  => \A p \in 0..Len(wkt) :
       /\ \A token \in ScanTokens : Moved(wkt, p, isMatch(wkt, p, token), token)
       /\ Moved(wkt, p, match(wkt, p, WKT_GEOMETRY_TYPES),
                match(wkt, p, WKT_GEOMETRY_TYPES).token)
       /\ Moved(wkt, p, match(wkt, p, ZZM), match(wkt, p, ZZM).token)

\* a reachable state of C20: isMatch(EMPTY) before " (" fails and leaves the
\* position behind the space
C20_Witness ==
  /\ ScannerSample /\ doc.origin = "wkt" /\ doc.kind = 1 /\ doc.gap = <<" ">>
  /\ doc.case = "upper" /\ doc.prefix = "none" /\ doc.empty = "none" /\ doc.arity = 2
  /\ ~isMatch(wkt, 5, EMPTY).ok /\ isMatch(wkt, 5, EMPTY).position = 6
  /\ isMatch(wkt, 5, <<"(">>).ok /\ isMatch(wkt, 5, <<"(">>).position = 7

\* wktToGeoJSON has been applied to a text in another form of the grammar
ParsedVariant == doc.origin = "variant" /\ pc # "parse"

\* C21: under the dimension token M (without Z) each coordinate takes three
\* numeric fields of the input and the position returned holds the first two;
\* the result equals the parse of the text without M and without the third
\* fields.
C21_MOnly ==
  (ParsedVariant /\ doc.form = "m")
  => /\ error = ""
     /\ GeomEq(geometry, MapPositions(given, "xy"))
     /\ GeomEq(geometry,
               wktToGeoJSON(Write(doc, MapPositions(given, "xy")), userOptions).value)

\* a reachable state of C21: LINESTRING M with two coordinates of three fields
\* parsed into two positions of two components
C21_Witness ==
  /\ ParsedVariant /\ doc.form = "m" /\ doc.kind = 2 /\ doc.n = 2 /\ error = ""
  /\ startsWith(source, WKT_GEOMETRY_TYPES[2] \o <<" ", "M", " ">>, 0)
  /\ geometry.type = "LineString" /\ Len(geometry.coordinates) = 2
  /\ Len(geometry.coordinates[2]) = 2
  /\ geometry.coordinates[2] = SubSeq(given.coordinates[2], 1, 2)

\* C22: MULTIPOINT ((x1 y1),(x2 y2),...) parses to the same geometry as
\* MULTIPOINT (x1 y1,x2 y2,...), and a coordinate opened by its own "(" and
\* not closed by its own ")" makes the parse throw 'Expected group end'.
C22_LegacyMultiPoint ==
  /\ (ParsedVariant /\ doc.form = "legacy")
     => /\ error = ""
        /\ GeomEq(geometry, given)
        /\ GeomEq(geometry, wktToGeoJSON(Write(doc, given), userOptions).value)
  /\ (ParsedBroken /\ doc.form = "legacy")
     => (error = "Expected group end" /\ geometry = Null /\ pc = "threw")

\* a reachable state of C22: MULTIPOINT Z ((..),(..)) parsed into the two
\* positions of three components
C22_Witness ==
  /\ ParsedVariant /\ doc.form = "legacy" /\ doc.n = 2 /\ doc.arity = 3 /\ error = ""
  /\ startsWith(source, WKT_GEOMETRY_TYPES[4] \o <<" ", "Z", " ", "(", "(">>, 0)
  /\ geometry.type = "MultiPoint" /\ Len(geometry.coordinates) = 2
  /\ geometry.coordinates[2] = given.coordinates[2]

\* the offset behind the first coordinate of the text of document d
FirstCoordinateEnd(d, text) ==
  FirstIn(text, {",", ")"}, FirstIn(text, NumberStart, Len(WritePrefix(d)) + 1)) - 1

\* C23: the error of a missing proj is raised at the first coordinate reached:
\* after a prefix SRID=n;, n other than 4326, and without proj, an EMPTY
\* geometry parses without that error, and a text with a structural error
\* before its first coordinate throws the structural error.  (For a geometry
\* that is no collection the error is thrown with the scanner just behind the
\* first coordinate.)
C23_LazyResolution ==
  /\ ( /\ Parsed /\ doc.prefix = "srid" /\ doc.srid # 4326 /\ doc.case = "upper"
       /\ Resolved(userOptions).proj = "undefined" )
     => IF doc.empty = "self"
        THEN error = "" /\ GeomEq(geometry, Expected(doc, userOptions))
        ELSE (doc.srid = 3857 /\ doc.kind # 7)
             => /\ error = NoProjMessage
                /\ scanner.position = FirstCoordinateEnd(doc, source)
  /\ (ParsedBroken /\ doc.prefix = "srid" /\ doc.srid # 4326)
     => /\ pc = "threw" /\ error # NoProjMessage
        /\ doc.defect = "keyword" => error = "Expected geometry type"
        /\ doc.defect = "nostart" => error = "Expected group start"

\* a reachable state of C23: SRID=3857;POLYGON without its first "(" parsed
\* without proj threw 'Expected group start'
C23_Witness ==
  /\ ParsedBroken /\ doc.prefix = "srid" /\ doc.srid = 3857 /\ doc.defect = "nostart"
  /\ doc.kind = 3 /\ userOptions.omitted
  /\ startsWith(source, SRIDEQ \o <<"3", "8", "5", "7", ";">>, 0)
  /\ error = "Expected group start" /\ pc = "threw"

\* the number of components the dimension suffix of the document stands for
SuffixArity(d) == IF d.form = "m" THEN 2 ELSE d.arity

\* every position of g has n components
Uniform(g, n) == \A i \in 1..Len(positionsOf(g)) : Len(positionsOf(g)[i]) = n

\* C24: in every non-collection geometry wktToGeoJSON returns, all positions
\* have the same number of components, the one of the geometry's dimension
\* suffix (2 without suffix and for M, 3 for Z, 4 for ZM), with and without a
\* proj callback.
C24_UniformArity ==
  ( /\ Parsed \/ ParsedVariant
    /\ error = "" /\ geometry.type \notin {"null", "GeometryCollection"} )
  => Uniform(geometry, SuffixArity(doc))

\* the number of characters c in text
Count(text, c) == Cardinality({i \in 1..Len(text) : text[i] = c})

\* wktToGeoJSON has been applied, to the text wkt
Returned == pc \in {"threw", "null", "returned"} \/ (pc = "stringify" /\ doc.origin # "geojson")

\* the text wktToGeoJSON was applied to
ParsedText == IF doc.origin = "geojson" THEN wkt ELSE source

\* C25: wktToGeoJSON returns or throws after finitely many steps: every
\* repetition of a comma-driven loop (coordinates, rings, polygons, children
\* of a collection) has consumed a "," of its own, so there are at most as
\* many repetitions as the text has commas, fewer than it has characters; a
\* well-formed text is parsed with exactly one repetition per comma.
C25_Termination ==
  Returned
  => /\ iterations <= Count(ParsedText, ",")
     /\ iterations < Len(ParsedText)
     /\ (error = "" /\ doc.defect = "none") => iterations = Count(ParsedText, ",")

\* a reachable state of C25: a MULTIPOLYGON of MaxRings polygons of MaxRings
\* rings of MaxCoords coordinates parsed with one repetition per comma
C25_Witness ==
  /\ Returned /\ doc.origin = "wkt" /\ doc.kind = 6 /\ doc.n = MaxCoords /\ doc.r = MaxRings
  /\ error = "" /\ geometry.type = "MultiPolygon"
  /\ iterations = MaxRings * MaxRings * MaxCoords - 1

\* a parser at offset p that has done nothing yet
Fresh(p) ==
  [position |-> p, calls |-> <<>>, active |-> 0, peak |-> 0, iterations |-> 0,
   forward |-> TRUE]

\* the options of a geometry without CRS prefix
Plain(hasZ, hasM) ==
  [emptyAsNull |-> "true", proj |-> "undefined", srid |-> <<>>, hasZ |-> hasZ, hasM |-> hasM]

\* q is an offset of value not before p
Forward(value, p, q) == p <= q /\ q <= Len(value)

\* every scanner operation called at offset p of value leaves an offset of
\* value that is not before p
ScannerForward(value, p) ==
  /\ Forward(value, p, skipWhitespaces(value, p))
  /\ Forward(value, p, match(value, p, WKT_GEOMETRY_TYPES).position)
  /\ Forward(value, p, match(value, p, ZZM).position)
  /\ \A token \in ScanTokens : Forward(value, p, isMatch(value, p, token).position)
  /\ Forward(value, p, matchSrid(value, p).position)
  /\ Forward(value, p, expectGroupStart(value, Fresh(p)).position)
  /\ Forward(value, p, expectGroupEnd(value, Fresh(p)).position)
  /\ \A hasZ \in BOOLEAN :
       /\ Forward(value, p, matchRegex(value, p, coordinatePattern(Plain(hasZ, hasZ))).position)
       /\ Forward(value, p, matchCoordinate(value, Fresh(p), Plain(hasZ, FALSE)).position)

\* C26: during a parse 0 <= position <= length of the input, and no scanner
\* operation (skipWhitespaces, match, isMatch, matchRegex, expectGroupStart,
\* expectGroupEnd, matchCoordinate) makes the position smaller, whatever the
\* offset it is called at; the parse ends at an offset of the input.
C26_PositionForward ==
  /\ Returned => (scanner.forward /\ Forward(ParsedText, 0, scanner.position))
  /\ ScannerSample => \A p \in 0..Len(wkt) : ScannerForward(wkt, p)

\* a reachable state of C26: in GEOMETRYCOLLECTION(POINT (.. the keyword of
\* the child is matched at offset 19 and the scanner goes on to 24, then
\* past " (" to 26
C26_Witness ==
  /\ ScannerSample /\ doc.origin = "wkt" /\ doc.kind = 7 /\ doc.child = 1
  /\ doc.empty = "none" /\ doc.gap = <<" ">> /\ doc.arity = 2 /\ doc.prefix = "none"
  /\ doc.case = "upper"
  /\ match(wkt, 19, WKT_GEOMETRY_TYPES).ok
  /\ match(wkt, 19, WKT_GEOMETRY_TYPES).position = 24
  /\ isMatch(wkt, 24, <<"(">>).position = 26
  /\ matchRegex(wkt, 26, <<"S", "W", "L">>).ok
  /\ matchRegex(wkt, 26, <<"S", "W", "L">>).position > 26

StructuralErrors ==
  {"Expected geometry type", "Expected group start", "Expected group end",
   "Expected coordinates"}

\* C27: only the space is skipped between tokens: a tab or a newline before
\* a keyword, a dimension token, "(", ")" or "," makes the parse throw a
\* structural error, and a tab or a newline between the numeric fields of a
\* coordinate separates them as a space does.
C27_OnlySpaceSkipped ==
  /\ (ParsedBroken /\ doc.defect \in WhiteDefects)
     => (pc = "threw" /\ error \in StructuralErrors /\ geometry = Null)
  /\ (ParsedVariant /\ doc.form = "field")
     => (error = "" /\ GeomEq(geometry, given))

\* a reachable state of C27: a POLYGON ZM whose fields are separated by
\* newlines, parsed into its positions
C27_Witness ==
  /\ ParsedVariant /\ doc.form = "field" /\ doc.white = "\n" /\ doc.kind = 3
  /\ doc.arity = 4 /\ doc.n = 2 /\ Count(source, "\n") >= 6 /\ error = ""
  /\ geometry.type = "Polygon" /\ positionsOf(geometry) = positionsOf(given)

\* the children of collection g, at any depth, that are no collections have
\* positions of n components
RECURSIVE ChildrenUniform(_, _)
ChildrenUniform(g, n) ==
  IF g.type = "GeometryCollection"
  THEN \A i \in 1..Len(g.geometries) : ChildrenUniform(g.geometries[i], n)
  ELSE Uniform(g, n)

\* what C28 says of the state after a parse
OwnDimension ==
  /\ (ParsedVariant /\ doc.form \in {"gcz", "gczm"})
     => (error = "" /\ GeomEq(geometry, given) /\ ChildrenUniform(geometry, 2))
  /\ (Parsed /\ doc.kind = 7 /\ doc.empty = "none" /\ doc.case = "upper" /\ doc.prefix = "none")
     => (error = "" /\ GeomEq(geometry, given) /\ ChildrenUniform(geometry, doc.arity))

\* C28: the dimension flags are per geometry and are not inherited: each
\* child of a GEOMETRYCOLLECTION takes its arity from its own dimension token
\* (in GEOMETRYCOLLECTION Z (POINT (1 2)) the child is read with 2 fields, and
\* in GEOMETRYCOLLECTION(POINT Z (1 2 3)) with 3), and no step changes the
\* options the caller passed.
C28_DimensionPerGeometry == [](OwnDimension) /\ [][userOptions' = userOptions]_vars

\* a reachable state of C28: GEOMETRYCOLLECTION Z (POINT (x y),... parsed, the
\* Point has 2 components
C28_Witness ==
  /\ ParsedVariant /\ doc.form = "gcz" /\ error = ""
  /\ startsWith(source, WKT_GEOMETRY_TYPES[7] \o <<" ", "Z", " ", "(">> \o WKT_GEOMETRY_TYPES[1], 0)
  /\ geometry.type = "GeometryCollection" /\ geometry.geometries[1].type = "Point"
  /\ Len(geometry.geometries[1].coordinates) = 2
====
